---- MODULE Spec2Model ----
(***************************************************************************)
(* A model of arcade-rs: the game loop of phi::spawn with its views        *)
(* (MainMenuView, ShipView), the font cache of Phi::ttf_str_sprite and the *)
(* rectangle operations of phi::data::Rectangle.                           *)
(*                                                                         *)
(* Several specifications share the module:                                 *)
(*   Spec      the game loop (spawn), one step per program position;       *)
(*   FairSpec  the same loop, which always takes its next step;            *)
(*   BurstSpec the same loop with pumps that drain several events of the   *)
(*             keys that quit and confirm;                                 *)
(*   FontSpec  sequences of calls of Phi::ttf_str_sprite;                   *)
(*   RectSpec  Rectangle::move_inside / Rectangle::contains on inputs      *)
(*             drawn from bounded sets;                                    *)
(*   EventsSpec sequences of Events::pump calls;                           *)
(*   ShipSpec  sequences of ShipView::render calls;                        *)
(*   MenuSpec  sequences of MainMenuView::render calls.                    *)
(* Each specification holds the variables of the others at their initial   *)
(* values.                                                                 *)
(***************************************************************************)
EXTENDS Integers, Sequences, FiniteSets, TLC

VARIABLES
  \* ---- spawn: the game loop (src/src/phi/mod.rs:132-192)
  pc,            \* position in spawn: "loop" (l.160), "pump" (l.179), "render" (l.181), "done" (after break), "panic" (unwinding)
  clock,         \* the value timer.ticks() would return now, in ms
  before,        \* `before`: time of the last advancing tick
  last_second,   \* `last_second`: time of the last FPS report
  fps,           \* `fps`: frames counted since the last report
  now,           \* `now` of the current iteration
  dt,            \* `dt` of the current iteration
  elapsed,       \* `elapsed` of the current iteration, a fraction of a second
  events,        \* context.events: level flags, per-pump flags, quit
  output_size,   \* what renderer.output_size() returns
  current_view,  \* `current_view`
  next_id,       \* identity given to the next view constructed
  act,           \* the ViewAction returned by the last render call
  render_arg,    \* the `elapsed` argument of the last render call
  ops,           \* calls made so far in the current iteration
  ticks,         \* number of advancing ticks so far
  prev_before,   \* `before` as it was ahead of the last advancing tick
  rendered,      \* identity of the view the last render call was made on
  dropped,       \* identities of the views replaced so far
  stdout,        \* the values printed by println!("FPS: {}")
  \* ---- Phi::ttf_str_sprite (src/src/phi/mod.rs:54-81)
  cached_fonts,  \* keys of Phi.cached_fonts
  fpc,           \* position in ttf_str_sprite: "idle", "enter" (l.57), "load" (l.63)
  fkey,          \* (font_path, size) of the call in progress
  fdepth,        \* recursive re-entries of the call in progress
  fhit,          \* was the key cached when the outermost call began
  floads,        \* Font::from_file calls made by the call in progress
  fresult,       \* what the last finished call returned: "Some" or "None"
  attempts,      \* Font::from_file calls per key, over all calls
  loaded,        \* successful Font::from_file calls per key, over all calls
  calls,         \* outermost calls begun so far
  \* ---- Rectangle (src/src/phi/data.rs)
  rself,         \* the receiver of move_inside
  rparent,       \* its `parent` argument
  rresult,       \* what move_inside returned; NotCalled before the call
  rinside,       \* what rparent.contains(rself) returned; FALSE before the call
  rresult2,      \* what move_inside returned for the rectangle in rresult; NotCalled before the call
  rstep,         \* "input" before a call, "moved" after move_inside, "tested" after contains, "again" after the second move_inside
  \* ---- Events::pump called on its own (EventsSpec)
  pumped,        \* the raw events the last pump drained
  pumps,         \* pumps made so far
  \* ---- ShipView::render called on its own (ShipSpec)
  player,        \* self.player.rect, in hundredths of a pixel
  current,       \* self.player.current, the ShipFrame
  ship_ret,      \* how the last render call ended: "None", "Quit" or "panic"; "-" before the first
  renders,       \* render calls made so far
  \* ---- MainMenuView::render called on its own (MenuSpec)
  menu,          \* the MainMenuView
  menu_ev,       \* phi.events as the last render call found it
  menu_ret,      \* tag of the ViewAction the last call returned, or "panic"; "-" before the first
  menu_calls     \* render calls made so far

loopVars == <<pc, clock, before, last_second, fps, now, dt, elapsed, events,
              output_size, current_view, next_id, act, render_arg, ops, ticks,
              prev_before, rendered, dropped, stdout>>
fontVars == <<cached_fonts, fpc, fkey, fdepth, fhit, floads, fresult, attempts,
              loaded, calls>>
rectVars == <<rself, rparent, rresult, rinside, rresult2, rstep>>
evVars == <<pumped, pumps>>
shipVars == <<player, current, ship_ret, renders>>
menuVars == <<menu, menu_ev, menu_ret, menu_calls>>
vars == <<loopVars, fontVars, rectVars, evVars, shipVars, menuVars>>

\* ------------------------------------------------------------------ bounds
\* Advancing ticks explored per run.
MaxTicks == 3
\* Raw events the platform hands to one pump.
MaxEvents == 1
\* How far the clock may have moved when spawn reads it again (ms).
ClockSteps == {0, 1, 10, 1001}
\* Outermost ttf_str_sprite calls explored per run.
MaxCalls == 4
\* Re-entries of ttf_str_sprite explored before the model stops following them.
MaxDepth == 3
\* Rectangle coordinates and sizes tried.
MaxPos == 3
MaxParentPos == 1
MaxSize == 3
\* Pumps explored per run of EventsSpec, and raw events handed to one of them.
MaxPumps == 2
MaxBatch == 2
\* ShipView::render calls explored per run of ShipSpec.
MaxRenders == 3
\* MainMenuView::render calls explored per run of MenuSpec.
MaxMenuCalls == 3
\* Raw events handed to one pump of BurstSpec.
MaxBurst == 2

\* ------------------------------------------------------------------ values
\* Option<T>
None == <<"None">>
Some(x) == <<"Some", x>>
IsSome(o) == o[1] = "Some"
Unwrap(o) == o[2]

\* The keys of struct_events! (phi/mod.rs:17-25).
Keys == {"Escape", "Up", "Down", "Left", "Right", "Space", "Return"}

\* ViewAction (phi/mod.rs:92-96).
NoView == [id |-> 0, kind |-> "none", selected |-> 0]
ViewAction_None == [tag |-> "None", view |-> NoView]
ViewAction_Quit == [tag |-> "Quit", view |-> NoView]
ViewAction_ChangeView(v) == [tag |-> "ChangeView", view |-> v]
\* No render call has returned yet.
NoAction == [tag |-> "-", view |-> NoView]

SeqsUpTo(S, n) == UNION {[1..k -> S] : k \in 0..n}


\* ------------------------------------------------------------------ events
\* The platform's raw events.  Events::pump is generated by the macro
\* struct_events! of phi/events.rs; it is modelled after sections 3 and 4.2
\* of the specification.
KeyDown(k) == [kind |-> "KeyDown", key |-> k, size |-> <<0, 0>>]
KeyUp(k) == [kind |-> "KeyUp", key |-> k, size |-> <<0, 0>>]
QuitEvent == [kind |-> "Quit", key |-> "", size |-> <<0, 0>>]
Resized(s) == [kind |-> "Resized", key |-> "", size |-> s]
MouseMotion == [kind |-> "MouseMotion", key |-> "", size |-> <<0, 0>>]

\* Events::new: nothing held, nothing pressed, no quit.
Events_new ==
  [key |-> [k \in Keys |-> FALSE], now |-> [k \in Keys |-> FALSE], quit |-> FALSE]

\* Mutant of ApplyEvent: every key-down raises the per-pump flag, key
\* repeats included.
ApplyEvent_Repeats(st, e) ==
  LET ev == st.events IN
  CASE e.kind = "KeyDown" /\ e.key \in Keys ->
         [st EXCEPT !.events =
            [ev EXCEPT !.now[e.key] = TRUE, !.key[e.key] = TRUE]]
    [] e.kind = "KeyUp" /\ e.key \in Keys ->
         [st EXCEPT !.events = [ev EXCEPT !.key[e.key] = FALSE]]
    [] e.kind = "Quit" ->
         [st EXCEPT !.events = [ev EXCEPT !.quit = TRUE]]
    [] e.kind = "Resized" ->
         [st EXCEPT !.size = e.size]
    [] OTHER -> st

\* Step 3 of section 4.2 for one raw event; st = [events, size].
ApplyEvent(st, e) ==
  LET ev == st.events IN
  CASE e.kind = "KeyDown" /\ e.key \in Keys ->
         [st EXCEPT !.events =
            [ev EXCEPT !.now[e.key] = (ev.now[e.key] \/ ~ev.key[e.key]),
                       !.key[e.key] = TRUE]]
    [] e.kind = "KeyUp" /\ e.key \in Keys ->
         [st EXCEPT !.events = [ev EXCEPT !.key[e.key] = FALSE]]
    [] e.kind = "Quit" ->
         [st EXCEPT !.events = [ev EXCEPT !.quit = TRUE]]
    [] e.kind = "Resized" ->
         [st EXCEPT !.size = e.size]
    [] OTHER -> st

RECURSIVE ApplyEvents(_, _)
ApplyEvents(st, evs) ==
  IF evs = <<>> THEN st
  ELSE ApplyEvents(ApplyEvent(st, Head(evs)), Tail(evs))

\* Mutant of Events_pump: the per-pump flags are not reset.
Events_pump_KeepsNow(ev, size, evs) ==
  ApplyEvents([events |-> ev, size |-> size], evs)

\* Mutant of Events_pump: quit is reset along with the per-pump flags.
Events_pump_ResetsQuit(ev, size, evs) ==
  ApplyEvents([events |-> [ev EXCEPT !.now = [k \in Keys |-> FALSE],
                                     !.quit = FALSE],
               size |-> size], evs)

\* Events::pump(renderer): reset the per-pump flags, keep the level flags and
\* quit, then drain the queue.
Events_pump(ev, size, evs) ==
  ApplyEvents([events |-> [ev EXCEPT !.now = [k \in Keys |-> FALSE]],
               size |-> size], evs)

\* `phi.events.now.key_x == Some(true)`
Pressed(ev, k) == ev.now[k]

\* ------------------------------------------------------------------ views
\* Ship size (views/mod.rs:15-16) and the window spawn creates (phi/mod.rs:140).
SHIP_W == 43
SHIP_H == 39
WindowSize == <<800, 600>>
\* A window too narrow for the ship: 0.70 * 60 < SHIP_W.
NarrowWindow == <<60, 600>>

\* MainMenuView::new: two actions, the first one selected.
MainMenuView_new(id) == [id |-> id, kind |-> "MainMenu", selected |-> 0]
\* ShipView::new; ShipView has no `selected`, the field stays 0.
ShipView_new(id) == [id |-> id, kind |-> "Ship", selected |-> 0]

\* actions.len() of MainMenuView: "New Game" and "Quit".
NumActions == 2

\* (self.actions[i].func)(phi): the closures of MainMenuView::new.
Action_func(i, id) ==
  IF i = 0 THEN ViewAction_ChangeView(ShipView_new(id)) ELSE ViewAction_Quit

\* Mutant of MainMenuView_render: the selected action is executed before
\* quit and Escape are looked at.
MainMenuView_render_ConfirmFirst(self, ev, id) ==
  IF Pressed(ev, "Space") \/ Pressed(ev, "Return")
  THEN [self |-> self, action |-> Action_func(self.selected, id), panic |-> FALSE]
  ELSE IF ev.quit \/ Pressed(ev, "Escape")
  THEN [self |-> self, action |-> ViewAction_Quit, panic |-> FALSE]
  ELSE
    LET s1 == IF Pressed(ev, "Up")
              THEN (IF self.selected - 1 < 0 THEN NumActions - 1
                    ELSE self.selected - 1)
              ELSE self.selected
        s2 == IF Pressed(ev, "Down")
              THEN (IF s1 + 1 >= NumActions THEN 0 ELSE s1 + 1)
              ELSE s1
    IN [self |-> [self EXCEPT !.selected = s2],
        action |-> ViewAction_None, panic |-> FALSE]

\* Mutant of MainMenuView_render: no looping on the list of actions.
MainMenuView_render_NoLoop(self, ev, id) ==
  IF ev.quit \/ Pressed(ev, "Escape")
  THEN [self |-> self, action |-> ViewAction_Quit, panic |-> FALSE]
  ELSE IF Pressed(ev, "Space") \/ Pressed(ev, "Return")
  THEN [self |-> self, action |-> Action_func(self.selected, id), panic |-> FALSE]
  ELSE
    LET s1 == IF Pressed(ev, "Up") THEN self.selected - 1 ELSE self.selected
        s2 == IF Pressed(ev, "Down") THEN s1 + 1 ELSE s1
    IN [self |-> [self EXCEPT !.selected = s2],
        action |-> ViewAction_None, panic |-> FALSE]

\* MainMenuView::render: [self, action, panic].
MainMenuView_render(self, ev, id) ==
  IF ev.quit \/ Pressed(ev, "Escape")
  THEN [self |-> self, action |-> ViewAction_Quit, panic |-> FALSE]
  ELSE IF Pressed(ev, "Space") \/ Pressed(ev, "Return")
  THEN [self |-> self, action |-> Action_func(self.selected, id), panic |-> FALSE]
  ELSE
    LET s1 == IF Pressed(ev, "Up")
              THEN (IF self.selected - 1 < 0 THEN NumActions - 1
                    ELSE self.selected - 1)
              ELSE self.selected
        s2 == IF Pressed(ev, "Down")
              THEN (IF s1 + 1 >= NumActions THEN 0 ELSE s1 + 1)
              ELSE s1
    IN [self |-> [self EXCEPT !.selected = s2],
        action |-> ViewAction_None, panic |-> FALSE]

\* The ship fits the movable region (70% of the width, the whole height):
\* move_inside returns Some, so the unwrap of views/mod.rs:186 passes.
ShipFits(size) == ~(SHIP_W * 100 > size[1] * 70 \/ SHIP_H > size[2])

\* ShipView::render as the loop sees it: the action returned, or the panic
\* of the unwrap when the ship does not fit.
ShipView_render(self, ev, size) ==
  IF ev.quit \/ Pressed(ev, "Escape")
  THEN [self |-> self, action |-> ViewAction_Quit, panic |-> FALSE]
  ELSE IF ~ShipFits(size)
  THEN [self |-> self, action |-> NoAction, panic |-> TRUE]
  ELSE [self |-> self, action |-> ViewAction_None, panic |-> FALSE]

\* current_view.render(&mut context, elapsed): dynamic dispatch on Box<View>.
View_render(self, ev, size, id) ==
  IF self.kind = "MainMenu" THEN MainMenuView_render(self, ev, id)
  ELSE ShipView_render(self, ev, size)


\* ------------------------------------------------------------------ spawn
\* `let interval = 1_000 / 60;` in integer (u32) arithmetic.
interval == 1000 \div 60

\* Mutant of Elapsed: the fixed 0.01 s of an earlier version of the loop.
Elapsed_Fixed(d) == [num |-> 10, den |-> 1000]

\* `dt as f64 / 1_000.0`: seconds, kept as the fraction num/den.
Elapsed(d) == [num |-> d, den |-> 1000]

\* `if dt < interval`
TooEarly(d) == d < interval

\* Mutant of FpsReportDue: the second taken as one unit of the timer.
FpsReportDue_Units(n, last) == n - last > 1

\* `if now - last_second > 1_000`
FpsReportDue(n, last) == n - last > 1000

\* Mutant of DelayFor: the delay comes back a millisecond early.
DelayFor_Early(d) == interval - d - 1

\* Mutant of DelayFor: delay for the whole interval.
DelayFor_Whole(d) == interval

\* `timer.delay(interval - dt)`
DelayFor(d) == interval - d

\* Mutants of Interpret.
\* Quit is handled like None: the frame is presented and the loop goes on.
Interpret_QuitGoesOn(a, cur) ==
  CASE a.tag = "None" -> [present |-> TRUE, exit |-> FALSE, view |-> cur]
    [] a.tag = "Quit" -> [present |-> TRUE, exit |-> FALSE, view |-> cur]
    [] a.tag = "ChangeView" -> [present |-> FALSE, exit |-> FALSE, view |-> a.view]
\* ChangeView forgets to adopt the new view.
Interpret_KeepsView(a, cur) ==
  CASE a.tag = "None" -> [present |-> TRUE, exit |-> FALSE, view |-> cur]
    [] a.tag = "Quit" -> [present |-> FALSE, exit |-> TRUE, view |-> cur]
    [] a.tag = "ChangeView" -> [present |-> FALSE, exit |-> FALSE, view |-> cur]
\* None forgets to present the frame.
Interpret_NoPresent(a, cur) ==
  CASE a.tag = "None" -> [present |-> FALSE, exit |-> FALSE, view |-> cur]
    [] a.tag = "Quit" -> [present |-> FALSE, exit |-> TRUE, view |-> cur]
    [] a.tag = "ChangeView" -> [present |-> FALSE, exit |-> FALSE, view |-> a.view]
\* ChangeView adopts the new view and leaves the loop.
Interpret_ChangeExits(a, cur) ==
  CASE a.tag = "None" -> [present |-> TRUE, exit |-> FALSE, view |-> cur]
    [] a.tag = "Quit" -> [present |-> FALSE, exit |-> TRUE, view |-> cur]
    [] a.tag = "ChangeView" -> [present |-> FALSE, exit |-> TRUE, view |-> a.view]

\* The match on the ViewAction returned by render (phi/mod.rs:181-190):
\* is present() called, does the loop break, which view is current afterwards.
Interpret(a, cur) ==
  CASE a.tag = "None" -> [present |-> TRUE, exit |-> FALSE, view |-> cur]
    [] a.tag = "Quit" -> [present |-> FALSE, exit |-> TRUE, view |-> cur]
    [] a.tag = "ChangeView" -> [present |-> FALSE, exit |-> FALSE, view |-> a.view]

\* The raw events the platform delivers to the loop's pumps.
LoopEvents ==
  {KeyDown("Escape"), KeyDown("Return"), KeyUp("Return"), KeyDown("Down"),
   KeyDown("Up"), QuitEvent, Resized(NarrowWindow), MouseMotion}

\* The times at which spawn may reach its first timer.ticks().
StartTimes == {0}
\* The views `init` may construct.
InitViews == {MainMenuView_new(1), ShipView_new(1)}

\* The state of spawn when it enters `loop` (phi/mod.rs:134-156).
LoopInit ==
  /\ pc = "loop"
  /\ clock \in StartTimes
  /\ before = clock
  /\ last_second = clock
  /\ fps = 0
  /\ now = clock
  /\ dt = 0
  /\ elapsed = Elapsed(0)
  /\ events = Events_new
  /\ output_size = WindowSize
  /\ current_view \in InitViews
  /\ next_id = 2
  /\ act = NoAction
  /\ render_arg = Elapsed(0)
  /\ ops = <<>>
  /\ ticks = 0
  /\ prev_before = clock
  /\ rendered = 0
  /\ dropped = {}
  /\ stdout = <<>>

\* phi/mod.rs:160-168: the clock has moved by d; too early, so delay and retry.
LoopSleep(d) ==
  /\ pc = "loop"
  /\ ticks < MaxTicks
  /\ LET n == clock + d
         delta == n - before
     IN /\ TooEarly(delta)
        /\ now' = n
        /\ dt' = delta
        /\ elapsed' = Elapsed(delta)
        /\ clock' = n + DelayFor(delta)
  /\ ops' = <<>>
  /\ pc' = "loop"
  /\ UNCHANGED <<before, last_second, fps, events, output_size, current_view,
                 next_id, act, render_arg, ticks, prev_before, rendered,
                 dropped, stdout>>
  /\ UNCHANGED <<fontVars, rectVars, evVars, shipVars, menuVars>>

\* phi/mod.rs:160-177: the clock has moved by d; the tick advances.
LoopAdvance(d) ==
  /\ pc = "loop"
  /\ ticks < MaxTicks
  /\ LET n == clock + d
         delta == n - before
         f == fps + 1
     IN /\ ~TooEarly(delta)
        /\ now' = n
        /\ dt' = delta
        /\ elapsed' = Elapsed(delta)
        /\ clock' = n
        /\ before' = n
        /\ prev_before' = before
        /\ IF FpsReportDue(n, last_second)
           THEN /\ stdout' = Append(stdout, f)
                /\ last_second' = n
                /\ fps' = 0
           ELSE /\ fps' = f
                /\ UNCHANGED <<last_second, stdout>>
  /\ ticks' = ticks + 1
  /\ ops' = <<>>
  /\ pc' = "pump"
  /\ UNCHANGED <<events, output_size, current_view, next_id, act, render_arg,
                 rendered, dropped>>
  /\ UNCHANGED <<fontVars, rectVars, evVars, shipVars, menuVars>>

\* phi/mod.rs:179: context.events.pump(&mut context.renderer).
LoopPump(evs) ==
  /\ pc = "pump"
  /\ LET st == Events_pump(events, output_size, evs)
     IN /\ events' = st.events
        /\ output_size' = st.size
  /\ ops' = Append(ops, "pump")
  /\ pc' = "render"
  /\ UNCHANGED <<clock, before, last_second, fps, now, dt, elapsed,
                 current_view, next_id, act, render_arg, ticks, prev_before,
                 rendered, dropped, stdout>>
  /\ UNCHANGED <<fontVars, rectVars, evVars, shipVars, menuVars>>

\* phi/mod.rs:181-190: render the current view and act on what it returns.
LoopRender ==
  /\ pc = "render"
  /\ LET r == View_render(current_view, events, output_size, next_id)
         m == Interpret(r.action, r.self)
     IN IF r.panic
        THEN /\ pc' = "panic"
             /\ ops' = Append(ops, "render")
             /\ UNCHANGED <<current_view, next_id, act, dropped>>
        ELSE /\ act' = r.action
             /\ current_view' = m.view
             /\ next_id' = IF r.action.tag = "ChangeView" THEN next_id + 1
                           ELSE next_id
             /\ dropped' = IF m.view.id # current_view.id
                           THEN dropped \cup {current_view.id} ELSE dropped
             /\ ops' = IF m.present THEN ops \o <<"render", "present">>
                       ELSE Append(ops, "render")
             /\ pc' = IF m.exit THEN "done" ELSE "loop"
  /\ render_arg' = elapsed
  /\ rendered' = current_view.id
  /\ UNCHANGED <<clock, before, last_second, fps, now, dt, elapsed, events,
                 output_size, ticks, prev_before, stdout>>
  /\ UNCHANGED <<fontVars, rectVars, evVars, shipVars, menuVars>>

Next ==
  \/ \E d \in ClockSteps : LoopSleep(d)
  \/ \E d \in ClockSteps : LoopAdvance(d)
  \/ \E evs \in SeqsUpTo(LoopEvents, MaxEvents) : LoopPump(evs)
  \/ LoopRender


\* ------------------------------------------------------- Phi::ttf_str_sprite
\* The font files and point sizes asked for; MainMenuView asks for
\* assets/belligerent.ttf at 32 and 38 (views/main_menu.rs:167-168).
FontPaths == {"assets/belligerent.ttf", "assets/other.ttf"}
FontSizes == {32, 38}
FontKeys == FontPaths \X FontSizes

\* Phi::new: `cached_fonts: HashMap::new()`; 0 stands for "no entry", a
\* positive number is the font loaded by that Font::from_file call for the key.
NoFonts == [k \in FontKeys |-> 0]

\* Mutant of CacheGet: the lookup never finds the key.
CacheGet_Misses(cache, key) == FALSE

\* `self.cached_fonts.get(&(font_path, size))` is Some
CacheGet(cache, key) == cache[key] # 0

\* Mutant of CacheInsert: the font is filed under the path alone, whatever
\* its size.
CacheInsert_IgnoresSize(cache, key, font) == [cache EXCEPT ![<<key[1], 32>>] = font]

\* Mutant of CacheInsert: a cache of one entry.
CacheInsert_Evicts(cache, key, font) == [k \in DOMAIN cache |-> IF k = key THEN font ELSE 0]

\* Mutant of CacheInsert: the loaded font is not put into the cache.
CacheInsert_Forgets(cache, key, font) == cache

\* `self.cached_fonts.insert((font_path, size), font)`
CacheInsert(cache, key, font) == [cache EXCEPT ![key] = font]

FontInit ==
  /\ cached_fonts = NoFonts
  /\ fpc = "idle"
  /\ fkey = <<"", 0>>
  /\ fdepth = 0
  /\ fhit = FALSE
  /\ floads = 0
  /\ fresult = "-"
  /\ attempts = [k \in FontKeys |-> 0]
  /\ loaded = [k \in FontKeys |-> 0]
  /\ calls = 0

\* A caller invokes ttf_str_sprite(text, font_path, size, color).
FontCall(key) ==
  /\ fpc = "idle"
  /\ calls < MaxCalls
  /\ calls' = calls + 1
  /\ fkey' = key
  /\ fdepth' = 0
  /\ fhit' = CacheGet(cached_fonts, key)
  /\ floads' = 0
  /\ fresult' = "-"
  /\ fpc' = "enter"
  /\ UNCHANGED <<cached_fonts, attempts, loaded>>
  /\ UNCHANGED <<loopVars, rectVars, evVars, shipVars, menuVars>>

\* phi/mod.rs:57-61: the font is cached; render the text and make the texture.
FontHit(surfaceOk, textureOk) ==
  /\ fpc = "enter"
  /\ CacheGet(cached_fonts, fkey)
  /\ fresult' = IF surfaceOk /\ textureOk THEN "Some" ELSE "None"
  /\ fpc' = "idle"
  /\ UNCHANGED <<cached_fonts, fkey, fdepth, fhit, floads, attempts, loaded, calls>>
  /\ UNCHANGED <<loopVars, rectVars, evVars, shipVars, menuVars>>

\* phi/mod.rs:57: the font is not cached; fall through to the load.
FontMiss ==
  /\ fpc = "enter"
  /\ ~CacheGet(cached_fonts, fkey)
  /\ fpc' = "load"
  /\ UNCHANGED <<cached_fonts, fkey, fdepth, fhit, floads, fresult, attempts,
                 loaded, calls>>
  /\ UNCHANGED <<loopVars, rectVars, evVars, shipVars, menuVars>>

\* phi/mod.rs:63-70: Font::from_file; on success insert and call again.
FontLoad(loadOk) ==
  /\ fpc = "load"
  /\ fdepth < MaxDepth
  /\ attempts' = [attempts EXCEPT ![fkey] = @ + 1]
  /\ floads' = floads + 1
  /\ IF loadOk
     THEN /\ cached_fonts' = CacheInsert(cached_fonts, fkey, attempts'[fkey])
          /\ loaded' = [loaded EXCEPT ![fkey] = @ + 1]
          /\ fdepth' = fdepth + 1
          /\ fpc' = "enter"
          /\ UNCHANGED fresult
     ELSE /\ fresult' = "None"
          /\ fpc' = "idle"
          /\ UNCHANGED <<cached_fonts, loaded, fdepth>>
  /\ UNCHANGED <<fkey, fhit, calls>>
  /\ UNCHANGED <<loopVars, rectVars, evVars, shipVars, menuVars>>

FontSpecNext ==
  \/ \E key \in FontKeys : FontCall(key)
  \/ \E surfaceOk \in BOOLEAN, textureOk \in BOOLEAN : FontHit(surfaceOk, textureOk)
  \/ FontMiss
  \/ \E loadOk \in BOOLEAN : FontLoad(loadOk)

\* The font cache once MainMenuView::new has returned: its four
\* ttf_str_sprite calls (two labels, sizes 32 and 38) all returned Some.
MenuFontKeys == {"assets/belligerent.ttf"} \X FontSizes
FontAfterMenu ==
  /\ cached_fonts = [k \in FontKeys |-> IF k \in MenuFontKeys THEN 1 ELSE 0]
  /\ fpc = "idle"
  /\ fkey = <<"assets/belligerent.ttf", 38>>
  /\ fdepth = 0
  /\ fhit = TRUE
  /\ floads = 0
  /\ fresult = "Some"
  /\ attempts = [k \in FontKeys |-> IF k \in MenuFontKeys THEN 1 ELSE 0]
  /\ loaded = [k \in FontKeys |-> IF k \in MenuFontKeys THEN 1 ELSE 0]
  /\ calls = 4

\* ------------------------------------------------------------- Rectangle
\* Rectangle { x, y, w, h }; the coordinates tried are whole numbers, on
\* which the f64 arithmetic of data.rs is exact.
Rect(x, y, w, h) == [x |-> x, y |-> y, w |-> w, h |-> h]
NotCalled == <<"NotCalled">>

\* Mutant of move_inside: a rectangle that reaches past the right or the
\* bottom of parent is put at parent.w - self.w, parent.h - self.h, without
\* the origin of parent.
move_inside_NoOrigin(self, parent) ==
  IF self.w > parent.w \/ self.h > parent.h
  THEN None
  ELSE Some([w |-> self.w,
             h |-> self.h,
             x |-> IF self.x < parent.x THEN parent.x
                   ELSE IF self.x + self.w >= parent.x + parent.w
                        THEN parent.w - self.w
                   ELSE self.x,
             y |-> IF self.y < parent.y THEN parent.y
                   ELSE IF self.y + self.h >= parent.y + parent.h
                        THEN parent.h - self.h
                   ELSE self.y])

\* Rectangle::move_inside (data.rs:27-43).
move_inside(self, parent) ==
  IF self.w > parent.w \/ self.h > parent.h
  THEN None
  ELSE Some([w |-> self.w,
             h |-> self.h,
             x |-> IF self.x < parent.x THEN parent.x
                   ELSE IF self.x + self.w >= parent.x + parent.w THEN parent.x
                   ELSE self.x,
             y |-> IF self.y < parent.y THEN parent.y
                   ELSE IF self.y + self.w >= parent.y + parent.w THEN parent.y
                   ELSE self.y])

\* Mutant of contains: the bounds of self taken as open.
contains_Open(self, rect) ==
  LET xmin == rect.x
      xmax == xmin + rect.w
      ymin == rect.y
      ymax == ymin + rect.h
  IN /\ xmin > self.x /\ xmin < (self.x + self.w)
     /\ xmax > self.x /\ xmax < (self.x + self.w)
     /\ ymin > self.y /\ ymin < (self.y + self.h)
     /\ ymax > self.y /\ ymax < (self.y + self.h)

\* Rectangle::contains (data.rs:45-55).
contains(self, rect) ==
  LET xmin == rect.x
      xmax == xmin + rect.w
      ymin == rect.y
      ymax == ymin + rect.h
  IN /\ xmin >= self.x /\ xmin <= (self.x + self.w)
     /\ xmax >= self.x /\ xmax <= (self.x + self.w)
     /\ ymin >= self.y /\ ymin <= (self.y + self.h)
     /\ ymax >= self.y /\ ymax <= (self.y + self.h)

\* The rectangles tried: sizes are non-negative (the invariant of to_sdl).
SelfRects ==
  {Rect(x, y, w, h) : x \in 0..MaxPos, y \in 0..MaxPos, w \in 0..MaxSize, h \in 0..MaxSize}
ParentRects ==
  {Rect(x, y, w, h) : x \in 0..MaxParentPos, y \in 0..MaxParentPos,
                      w \in 0..MaxSize, h \in 0..MaxSize}

RectIdle ==
  /\ rself = Rect(0, 0, 0, 0)
  /\ rparent = Rect(0, 0, 0, 0)
  /\ rresult = NotCalled
  /\ rinside = FALSE
  /\ rresult2 = NotCalled
  /\ rstep = "input"

RectInit ==
  /\ rself \in SelfRects
  /\ rparent \in ParentRects
  /\ rresult = NotCalled
  /\ rinside = FALSE
  /\ rresult2 = NotCalled
  /\ rstep = "input"

\* self.move_inside(parent)
RectMove ==
  /\ rstep = "input"
  /\ rresult' = move_inside(rself, rparent)
  /\ rstep' = "moved"
  /\ UNCHANGED <<rself, rparent, rinside, rresult2>>
  /\ UNCHANGED <<loopVars, fontVars, evVars, shipVars, menuVars>>

\* parent.contains(self)
RectContains ==
  /\ rstep = "input"
  /\ rinside' = contains(rparent, rself)
  /\ rstep' = "tested"
  /\ UNCHANGED <<rself, rparent, rresult, rresult2>>
  /\ UNCHANGED <<loopVars, fontVars, evVars, shipVars, menuVars>>

\* q.move_inside(parent) for the q a first call returned
RectMoveAgain ==
  /\ rstep = "moved"
  /\ IsSome(rresult)
  /\ rresult2' = move_inside(Unwrap(rresult), rparent)
  /\ rstep' = "again"
  /\ UNCHANGED <<rself, rparent, rresult, rinside>>
  /\ UNCHANGED <<loopVars, fontVars, evVars, shipVars, menuVars>>

RectSpecNext ==
  \/ RectMove
  \/ RectContains
  \/ RectMoveAgain

\* ---------------------------------------------------------- Events::pump
\* The raw events handed to the pumps of EventsSpec: two tracked keys, a key
\* struct_events! does not name, and the other kinds of event.
PumpKeys == {"Up", "Escape"}
PumpEvents ==
  {KeyDown(k) : k \in PumpKeys \cup {"A"}} \cup {KeyUp(k) : k \in PumpKeys}
    \cup {QuitEvent, Resized(NarrowWindow), MouseMotion}

EvIdle ==
  /\ pumped = <<>>
  /\ pumps = 0

\* context.events.pump(&mut context.renderer) with evs waiting in the queue.
EvPump(evs) ==
  /\ pumps < MaxPumps
  /\ LET st == Events_pump(events, output_size, evs)
     IN /\ events' = st.events
        /\ output_size' = st.size
  /\ pumped' = evs
  /\ pumps' = pumps + 1
  /\ UNCHANGED <<pc, clock, before, last_second, fps, now, dt, elapsed,
                 current_view, next_id, act, render_arg, ops, ticks,
                 prev_before, rendered, dropped, stdout>>
  /\ UNCHANGED <<fontVars, rectVars, shipVars, menuVars>>

EventsSpecNext ==
  \/ \E evs \in SeqsUpTo(PumpEvents, MaxBatch) : EvPump(evs)

\* ------------------------------------------------------- ShipView::render
\* Lengths are kept in hundredths of a pixel, on which the distances moved
\* in a straight line (0.18 px per ms) are whole numbers.
Px(n) == n * 100

\* `const PLAYER_SPEED: f64 = 180.0;` in pixels per second.
PLAYER_SPEED == 180

\* ShipView::new: the ship starts at (64, 64).
ShipStart == Rect(Px(64), Px(64), Px(SHIP_W), Px(SHIP_H))

\* `let moved = if diagonal { 1.0 / 2.0f64.sqrt() } else { 1.0 } *
\* PLAYER_SPEED * elapsed;` for a tick of ms milliseconds; 1/sqrt(2) is taken
\* as 0.7071 and the product rounded down to a hundredth of a pixel.
Moved(diagonal, ms) ==
  IF diagonal THEN (((PLAYER_SPEED * ms) \div 10) * 7071) \div 10000
  ELSE (PLAYER_SPEED * ms) \div 10

\* `match (negative, positive)` of dx and dy.
Delta(negative, positive, moved) ==
  IF negative = positive THEN 0
  ELSE IF negative THEN 0 - moved
  ELSE moved

\* The region the ship may move in: all the height of the window and 70%
\* of its width.
MovableRegion(size) == Rect(0, 0, (Px(size[1]) * 70) \div 100, Px(size[2]))

\* The ShipFrame chosen from the signs of dx and dy.
ShipFrameOf(dx, dy) ==
  (IF dy < 0 THEN "Up" ELSE IF dy = 0 THEN "Mid" ELSE "Down")
    \o (IF dx = 0 THEN "Norm" ELSE IF dx > 0 THEN "Fast" ELSE "Slow")

\* A window wider than the one spawn creates (the window is resizable).
WideWindow == <<1000, 600>>
ShipWindows == {WindowSize, WideWindow, NarrowWindow}

\* The time of a tick in ms: a paced tick, and ticks that took one and
\* three seconds.
ShipElapsed == {16, 1000, 3000}

\* phi.events as a render call may find it: any of the four movement keys
\* held, or nothing held and quit raised or Escape just pressed.
MoveKeys == {"Up", "Down", "Left", "Right"}
ShipEvents ==
  {[Events_new EXCEPT !.key = [k \in Keys |-> k \in held]] : held \in SUBSET MoveKeys}
    \cup {[Events_new EXCEPT !.quit = TRUE],
          [Events_new EXCEPT !.now["Escape"] = TRUE, !.key["Escape"] = TRUE]}

ShipIdle ==
  /\ player = ShipStart
  /\ current = "MidNorm"
  /\ ship_ret = "-"
  /\ renders = 0

\* ShipView::render(phi, elapsed) with phi.events = ev, elapsed = ms / 1000
\* and a window of the given size (views/mod.rs:144-238).
ShipRender(ev, ms, size) ==
  /\ ship_ret \in {"-", "None"}
  /\ renders < MaxRenders
  /\ renders' = renders + 1
  /\ output_size' = size
  /\ IF ev.quit \/ Pressed(ev, "Escape")
     THEN /\ ship_ret' = "Quit"
          /\ UNCHANGED <<player, current>>
     ELSE LET diagonal == (ev.key["Up"] # ev.key["Down"]) /\ (ev.key["Left"] # ev.key["Right"])
              moved == Moved(diagonal, ms)
              dx == Delta(ev.key["Left"], ev.key["Right"], moved)
              dy == Delta(ev.key["Up"], ev.key["Down"], moved)
              rect == [player EXCEPT !.x = @ + dx, !.y = @ + dy]
              inside == move_inside(rect, MovableRegion(size))
          IN IF IsSome(inside)
             THEN /\ player' = Unwrap(inside)
                  /\ current' = ShipFrameOf(dx, dy)
                  /\ ship_ret' = "None"
             ELSE /\ player' = rect
                  /\ ship_ret' = "panic"
                  /\ UNCHANGED current
  /\ UNCHANGED <<pc, clock, before, last_second, fps, now, dt, elapsed, events,
                 current_view, next_id, act, render_arg, ops, ticks,
                 prev_before, rendered, dropped, stdout>>
  /\ UNCHANGED <<fontVars, rectVars, evVars, menuVars>>

ShipSpecNext ==
  \/ \E ev \in ShipEvents, ms \in ShipElapsed, size \in ShipWindows : ShipRender(ev, ms, size)

\* --------------------------------------------------- MainMenuView::render
\* phi.events as a render call may find it: any of the keys the menu reads
\* just pressed (and so held), with or without quit.
MenuKeys == {"Escape", "Space", "Return", "Up", "Down"}
MenuEvents ==
  {[key |-> [k \in Keys |-> k \in pressed],
    now |-> [k \in Keys |-> k \in pressed],
    quit |-> q] : pressed \in SUBSET MenuKeys, q \in BOOLEAN}

MenuIdle ==
  /\ menu = MainMenuView_new(1)
  /\ menu_ev = Events_new
  /\ menu_ret = "-"
  /\ menu_calls = 0

\* MainMenuView::render(phi, elapsed) with phi.events = ev
\* (main_menu.rs:54-147); `self.actions[self.selected as usize]` panics when
\* the index is out of range.
MenuRender(ev) ==
  /\ menu_ret \in {"-", "None"}
  /\ menu_calls < MaxMenuCalls
  /\ menu_calls' = menu_calls + 1
  /\ menu_ev' = ev
  /\ LET r == MainMenuView_render(menu, ev, 2)
         confirm == ~(ev.quit \/ Pressed(ev, "Escape"))
                      /\ (Pressed(ev, "Space") \/ Pressed(ev, "Return"))
     IN IF confirm /\ menu.selected \notin 0..(NumActions - 1)
        THEN /\ menu_ret' = "panic"
             /\ UNCHANGED menu
        ELSE /\ menu_ret' = r.action.tag
             /\ menu' = r.self
  /\ UNCHANGED <<loopVars, fontVars, rectVars, evVars, shipVars>>

MenuSpecNext ==
  \/ \E ev \in MenuEvents : MenuRender(ev)

\* -------------------------------------------------------- specifications
\* A fixed state of spawn, for the specifications that do not run the loop.
LoopIdle ==
  /\ LoopInit
  /\ clock = 0
  /\ current_view = ShipView_new(1)

Init ==
  /\ LoopInit
  /\ IF current_view.kind = "MainMenu" THEN FontAfterMenu ELSE FontInit
  /\ RectIdle
  /\ EvIdle
  /\ ShipIdle
  /\ MenuIdle

Spec == Init /\ [][Next]_vars

\* The loop with queues of several events at a pump: Escape, Return and Down
\* going down, a window-close and a resize to a window too narrow for the
\* ship.
BurstEvents ==
  {KeyDown("Escape"), KeyDown("Return"), KeyDown("Down"), QuitEvent,
   Resized(NarrowWindow)}
BurstNext ==
  \/ \E d \in ClockSteps : LoopSleep(d)
  \/ \E d \in ClockSteps : LoopAdvance(d)
  \/ \E evs \in SeqsUpTo(BurstEvents, MaxBurst) : LoopPump(evs)
  \/ LoopRender
BurstSpec == Init /\ [][BurstNext]_vars

\* spawn runs on a thread of its own that is never held back: whenever the
\* loop has a next step, it takes one.
FairSpec == Init /\ [][Next]_vars /\ WF_vars(Next)

FontSpecInit == LoopIdle /\ FontInit /\ RectIdle /\ EvIdle /\ ShipIdle /\ MenuIdle
FontSpec == FontSpecInit /\ [][FontSpecNext]_vars

RectSpecInit == LoopIdle /\ FontInit /\ RectInit /\ EvIdle /\ ShipIdle /\ MenuIdle
RectSpec == RectSpecInit /\ [][RectSpecNext]_vars

EventsSpecInit == LoopIdle /\ FontInit /\ RectIdle /\ EvIdle /\ ShipIdle /\ MenuIdle
EventsSpec == EventsSpecInit /\ [][EventsSpecNext]_vars

ShipSpecInit == LoopIdle /\ FontInit /\ RectIdle /\ EvIdle /\ ShipIdle /\ MenuIdle
ShipSpec == ShipSpecInit /\ [][ShipSpecNext]_vars

MenuSpecInit == LoopIdle /\ FontAfterMenu /\ RectIdle /\ EvIdle /\ ShipIdle /\ MenuIdle
MenuSpec == MenuSpecInit /\ [][MenuSpecNext]_vars


\* ------------------------------------------------------------ properties
\* A LoopRender step that returns (does not panic).
RenderReturns == pc = "render" /\ pc' # "panic"

\* C1: when render returns Quit the loop is left on that very tick, with the
\* pump and the render as the tick's only calls: present() is not called,
\* and nothing is called afterwards.
C1_TerminateExitsWithoutPresent ==
  act.tag = "Quit" => (pc = "done" /\ ops = <<"pump", "render">>)

C1_Witness ==
  /\ pc = "done"
  /\ act.tag = "Quit"
  /\ rendered = current_view.id
  /\ ops = <<"pump", "render">>

\* C2: a render that returns ChangeView(v) makes v the current view without
\* a present() on that tick; the current view changes at no other step, every
\* render call is made on the current view, and a replaced view is never
\* rendered again.
C2_ReplaceAdoptsNewView ==
  [][/\ (RenderReturns /\ act'.tag = "ChangeView") =>
          /\ current_view' = act'.view
          /\ current_view'.id # current_view.id
          /\ ops' = <<"pump", "render">>
          /\ pc' = "loop"
          /\ dropped' = dropped \cup {current_view.id}
     /\ (current_view'.id # current_view.id) =>
          (RenderReturns /\ act'.tag = "ChangeView")
     /\ (pc = "render") =>
          (rendered' = current_view.id /\ current_view.id \notin dropped)
    ]_vars

C2_Witness ==
  /\ act.tag = "None"
  /\ dropped = {1}
  /\ rendered = 2
  /\ current_view.id = 2
  /\ ops = <<"pump", "render", "present">>

\* C3: an iteration whose dt is below the interval delays for interval - dt
\* and starts over: before, fps, last_second, the view, the input state and
\* the output are unchanged and nothing is pumped, rendered or presented.
\* An iteration whose dt has reached the interval advances once.  With the
\* samples 0, 10, 17: no advance at 10, one advance at 17.
C3_SleepDoesNotAdvance ==
  [][/\ (pc = "loop" /\ now' - before < interval) =>
          /\ dt' = now' - before
          /\ clock' = now' + (interval - dt')
          /\ pc' = "loop"
          /\ ops' = <<>>
          /\ UNCHANGED <<before, last_second, fps, ticks, current_view, events,
                         output_size, act, rendered, stdout>>
     /\ (pc = "loop" /\ before = 0 /\ now' = 10) => ticks' = ticks
     /\ (pc = "loop" /\ before = 0 /\ now' = 17) =>
          (ticks' = ticks + 1 /\ before' = 17)
    ]_vars

\* The sample 10 after the sample 0: the loop has delayed for 6 ms and is
\* back at the top with nothing advanced.
C3_Witness ==
  /\ pc = "loop"
  /\ before = 0
  /\ now = 10
  /\ dt = 10
  /\ clock = 16
  /\ ticks = 0
  /\ fps = 0
  /\ ops = <<>>

\* C4: two consecutive advancing ticks are at least 1000/60 ms apart.
C4_TicksAtLeastTargetIntervalApart ==
  ticks >= 2 => 60 * (before - prev_before) >= 1000

\* C5: in an advancing tick the pump comes first and once, the render second
\* and once, and render is given the dt of the tick in seconds: the time from
\* the previous advancing tick to this one, over 1000.
C5_PumpThenRenderWithDt ==
  /\ ops \in {<<>>, <<"pump">>, <<"pump", "render">>,
              <<"pump", "render", "present">>}
  /\ (pc = "pump") => ops = <<>>
  /\ (pc = "render") => ops = <<"pump">>
  /\ (pc \in {"done", "panic"}) => ops = <<"pump", "render">>
  /\ (pc = "loop" /\ ops # <<>>) => Len(ops) >= 2
  /\ (Len(ops) >= 2) =>
       /\ dt = before - prev_before
       /\ render_arg = [num |-> before - prev_before, den |-> 1000]

C5_Witness ==
  /\ ops = <<"pump", "render", "present">>
  /\ render_arg = [num |-> 17, den |-> 1000]
  /\ ticks = 2

\* C6: a render that returns None is followed by exactly one present(), with
\* the same view current and the loop going on; a tick has a present() only
\* if its render returned None.
C6_ContinuePresentsOnce ==
  /\ [](("present" \in {ops[i] : i \in 1..Len(ops)}) =>
          (act.tag = "None" /\ ops = <<"pump", "render", "present">>))
  /\ [][(RenderReturns /\ act'.tag = "None") =>
          /\ ops' = <<"pump", "render", "present">>
          /\ current_view'.id = current_view.id
          /\ pc' = "loop"
       ]_vars

C6_Witness ==
  /\ act.tag = "None"
  /\ ops = <<"pump", "render", "present">>
  /\ pc = "loop"
  /\ current_view.kind = "MainMenu"
  /\ current_view.selected = 1

\* C7: the loop is left only by a render that returned Quit, or by a panic.
C7_ExitsOnlyOnTerminate ==
  /\ pc \in {"loop", "pump", "render", "done", "panic"}
  /\ (pc = "done") => act.tag = "Quit"
  /\ (act.tag # "Quit" /\ pc # "panic") => pc \in {"loop", "pump", "render"}

\* Still running after input events, a replacement and three ticks.
C7_Witness ==
  /\ pc = "loop"
  /\ ticks >= 3
  /\ dropped = {1}
  /\ act.tag = "None"
  /\ events.key["Down"]


\* C8: a font file is loaded at most once per key once a load has succeeded:
\* no key has more than one successful load, a cached key has had no
\* Font::from_file call after the one that filled the cache, and a call that
\* finds its key cached makes no Font::from_file call.
C8_FontLoadedAtMostOnce ==
  /\ \A k \in FontKeys :
       /\ loaded[k] <= 1
       /\ CacheGet(cached_fonts, k) =>
            (loaded[k] = 1 /\ attempts[k] = cached_fonts[k])
  /\ fhit => floads = 0
  /\ floads <= 1

\* Two calls with the same key, the first one loading the font at its first
\* attempt: one Font::from_file call in total.
C8_Witness ==
  /\ calls = 2
  /\ fpc = "idle"
  /\ fhit
  /\ fresult = "Some"
  /\ fkey = <<"assets/belligerent.ttf", 32>>
  /\ attempts[fkey] = 1
  /\ loaded[fkey] = 1
  /\ \A k \in FontKeys \ {fkey} : attempts[k] = 0

Min(a, b) == IF a < b THEN a ELSE b
Max(a, b) == IF a > b THEN a ELSE b

\* C9: move_inside(r, p) returns a rectangle contained in p when r is no
\* larger than p in both dimensions, and None otherwise.
C9_MoveInsideIsContained ==
  (rstep = "moved") =>
     IF rself.w <= rparent.w /\ rself.h <= rparent.h
     THEN IsSome(rresult) /\ contains(rparent, Unwrap(rresult))
     ELSE rresult = None

\* C10: the rectangle move_inside(r, p) returns has r's size and r's
\* coordinates clamped to p on each axis; a rectangle inside p is unchanged.
C10_MoveInsideClamps ==
  (rstep = "moved" /\ IsSome(rresult)) =>
     LET q == Unwrap(rresult) IN
     /\ q.w = rself.w
     /\ q.h = rself.h
     /\ q.x = Min(Max(rself.x, rparent.x), rparent.x + rparent.w - rself.w)
     /\ q.y = Min(Max(rself.y, rparent.y), rparent.y + rparent.h - rself.h)
     /\ contains(rparent, rself) => q = rself

\* The four corners of a rectangle, and a point within the closed bounds of
\* a rectangle.
Corners(r) == {<<r.x, r.y>>, <<r.x + r.w, r.y>>, <<r.x, r.y + r.h>>, <<r.x + r.w, r.y + r.h>>}
InClosedBounds(r, pt) ==
  /\ r.x <= pt[1] /\ pt[1] <= r.x + r.w
  /\ r.y <= pt[2] /\ pt[2] <= r.y + r.h

\* C11: outer.contains(inner) is true exactly when the four corners of inner
\* lie within the closed bounds of outer, that is outer.x <= inner.x,
\* inner.x + inner.w <= outer.x + outer.w and the same on y; a rectangle
\* contains itself, and an inner rectangle wholly beyond one side of outer
\* is not contained.
C11_ContainsIsFourCorners ==
  rstep = "tested" =>
    /\ rinside = (\A pt \in Corners(rself) : InClosedBounds(rparent, pt))
    /\ rinside = (/\ rparent.x <= rself.x
                  /\ rself.x + rself.w <= rparent.x + rparent.w
                  /\ rparent.y <= rself.y
                  /\ rself.y + rself.h <= rparent.y + rparent.h)
    /\ (rself = rparent => rinside)
    /\ ((\/ rself.x > rparent.x + rparent.w
         \/ rself.x + rself.w < rparent.x
         \/ rself.y > rparent.y + rparent.h
         \/ rself.y + rself.h < rparent.y) => ~rinside)

\* A rectangle of positive size tested against itself: contained.
C11_Witness ==
  /\ rstep = "tested"
  /\ rself = rparent
  /\ rself.w > 0 /\ rself.h > 0
  /\ rinside

\* A step of EventsSpec that is one call of Events::pump; pumped' is the
\* queue it drained.
PumpStep == pumps' = pumps + 1

\* Is e a key-down or key-up of key k.
IsKeyEvent(e, k) == e.kind \in {"KeyDown", "KeyUp"} /\ e.key = k
HasKeyDown(evs, k) == \E i \in DOMAIN evs : evs[i] = KeyDown(k)
HasKeyUp(evs, k) == \E i \in DOMAIN evs : evs[i] = KeyUp(k)

\* Is key k held when the i-th event of evs is about to be processed, given
\* that it was held (or not) when the pump began: what the last earlier
\* key event of k says, or the level at the start if there is none.
LevelBefore(held, evs, k, i) ==
  LET prior == {j \in DOMAIN evs : j < i /\ IsKeyEvent(evs[j], k)}
  IN IF prior = {} THEN held
     ELSE evs[CHOOSE j \in prior : \A m \in prior : m <= j].kind = "KeyDown"

\* C12: a key's per-pump flag is true after a pump only if that pump
\* processed a key-down of the key, so the flag never carries over to the
\* next pump.  A pump that processes key-down(K), K released before, leaves
\* K held and pressed; a pump with no events leaves every key as held as it
\* was and no key pressed; a held key stays held through every pump that
\* processes no key-up of it.
C12_EdgeOnlyInPumpOfKeyDown ==
  /\ [](\A k \in Keys : events.now[k] => HasKeyDown(pumped, k))
  /\ [][PumpStep =>
          \A k \in Keys :
            /\ (~events.key[k] /\ HasKeyDown(pumped', k) /\ ~HasKeyUp(pumped', k))
                 => (events'.key[k] /\ events'.now[k])
            /\ pumped' = <<>> => (events'.key[k] = events.key[k] /\ ~events'.now[k])
            /\ (events.key[k] /\ ~HasKeyUp(pumped', k)) => events'.key[k]]_vars

\* Up went down in the first pump; the second pump had no events: Up is
\* still held and no longer pressed.
C12_Witness ==
  /\ pumps = 2
  /\ pumped = <<>>
  /\ events.key["Up"]
  /\ ~events.now["Up"]

\* C13: quit is sticky: a pump that processes a window-close event leaves
\* quit true, and no later pump, with or without events, clears it.
C13_QuitIsSticky ==
  /\ []((\E i \in DOMAIN pumped : pumped[i] = QuitEvent) => events.quit)
  /\ [][events.quit => events'.quit]_vars

\* quit was raised by the first pump and is still up after a second pump
\* that had no events.
C13_Witness ==
  /\ pumps = 2
  /\ pumped = <<>>
  /\ events.quit

\* Does struct_events! track the event: a key event of one of its keys, a
\* window-close, or a resize.
Tracked(e) ==
  \/ e.kind \in {"KeyDown", "KeyUp"} /\ e.key \in Keys
  \/ e.kind \in {"Quit", "Resized"}

\* C14: in a pump a key-down raises the key's per-pump flag exactly when the
\* key was not held as the event was processed (a repeat of a held key
\* leaves it down), a key ends the pump held exactly when its last key event
\* was a key-down (a key-up releases it), and events of untracked keys or
\* kinds change nothing: the pump ends as if they had not been in the queue.
C14_KeyDownEdgeOnlyIfReleased ==
  [][PumpStep =>
      /\ \A k \in Keys :
           /\ events'.now[k] =
                (\E i \in DOMAIN pumped' :
                   pumped'[i] = KeyDown(k) /\ ~LevelBefore(events.key[k], pumped', k, i))
           /\ events'.key[k] = LevelBefore(events.key[k], pumped', k, Len(pumped') + 1)
           /\ (pumped' # <<>> /\ pumped'[Len(pumped')] = KeyUp(k)) => ~events'.key[k]
           /\ (events.key[k] /\ pumped' = <<KeyDown(k)>>) => ~events'.now[k]
      /\ LET st == Events_pump(events, output_size, SelectSeq(pumped', Tracked))
         IN events' = st.events /\ output_size' = st.size
      /\ (\A i \in DOMAIN pumped' : ~Tracked(pumped'[i])) =>
           /\ events'.key = events.key
           /\ events'.quit = events.quit
           /\ output_size' = output_size
           /\ \A k \in Keys : ~events'.now[k]]_vars

\* Up was held when the second pump processed a key-down of Up (a repeat):
\* held, not pressed.
C14_Witness ==
  /\ pumps = 2
  /\ pumped = <<KeyDown("Up")>>
  /\ events.key["Up"]
  /\ ~events.now["Up"]

RECURSIVE SumSeq(_)
SumSeq(q) == IF q = <<>> THEN 0 ELSE Head(q) + SumSeq(Tail(q))

\* C15: an advancing tick sets `before` to `now` and counts one frame; when
\* more than 1000 ms have passed since the last report it prints the count,
\* this tick included, clears it and sets `last_second` to `now`; otherwise
\* it only counts.  The count printed is the number of advancing ticks since
\* the previous report: the counts printed and the running count add up to
\* the advancing ticks made.
C15_FpsCountsTicksSinceReport ==
  /\ [](SumSeq(stdout) + fps = ticks)
  /\ [][(pc = "loop" /\ pc' = "pump") =>
          /\ before' = now'
          /\ ticks' = ticks + 1
          /\ IF now' - last_second > 1000
             THEN /\ stdout' = Append(stdout, fps + 1)
                  /\ fps' = 0
                  /\ last_second' = now'
             ELSE /\ fps' = fps + 1
                  /\ stdout' = stdout
                  /\ last_second' = last_second]_vars

\* The second advancing tick came more than a second after the start: it
\* printed 2 and cleared the count.
C15_Witness ==
  /\ pc = "pump"
  /\ ticks = 2
  /\ stdout = <<2>>
  /\ fps = 0
  /\ last_second = now
  /\ now > 1000

\* C16: a call whose key is not cached and whose Font::from_file fails
\* returns None and leaves the cache as it was, and a call with an uncached
\* key always goes on to Font::from_file, so a later call with that key
\* tries the load again.  When the load succeeds and making the sprite then
\* fails the call returns None with the font still cached.
C16_FailedLoadLeavesCache ==
  /\ []((fpc = "idle" /\ fdepth >= 1) => CacheGet(cached_fonts, fkey))
  /\ [][
       /\ (fpc = "load" /\ fpc' = "idle") =>
            (fresult' = "None" /\ cached_fonts' = cached_fonts)
       /\ (fpc = "enter" /\ ~CacheGet(cached_fonts, fkey)) => fpc' = "load"
       /\ fpc = "load" => attempts'[fkey] = attempts[fkey] + 1
       /\ (fpc = "enter" /\ fpc' = "idle") =>
            (cached_fonts' = cached_fonts /\ CacheGet(cached_fonts', fkey))
     ]_vars

\* Two calls for one key failed to load, one after the other, and left it
\* uncached; a call for another key loaded its font, failed to make the
\* sprite and returned None with that font cached.
C16_Witness ==
  \E a \in FontKeys, b \in FontKeys :
    /\ attempts[a] = 2 /\ loaded[a] = 0 /\ ~CacheGet(cached_fonts, a)
    /\ fpc = "idle" /\ fkey = b /\ fdepth = 1 /\ fresult = "None"
    /\ CacheGet(cached_fonts, b)

\* C17: the font cache is never evicted: a cached key stays cached with the
\* font it was cached with, and a key enters the cache only in the step
\* where Font::from_file succeeds for that very key.
C17_FontCacheOnlyGrows ==
  [][\A k \in FontKeys :
       /\ CacheGet(cached_fonts, k) => cached_fonts'[k] = cached_fonts[k]
       /\ (~CacheGet(cached_fonts, k) /\ CacheGet(cached_fonts', k)) =>
            /\ fpc = "load" /\ fkey = k
            /\ loaded'[k] = loaded[k] + 1
            /\ attempts'[k] = attempts[k] + 1
            /\ cached_fonts'[k] = attempts'[k]]_vars

\* Two keys were cached one after the other and a later call found the
\* first still cached.
C17_Witness ==
  \E a \in FontKeys, b \in FontKeys :
    /\ a # b
    /\ CacheGet(cached_fonts, a) /\ CacheGet(cached_fonts, b)
    /\ calls = 3 /\ fpc = "idle" /\ fkey = a /\ fhit

\* C18: a call of ttf_str_sprite makes at most one Font::from_file call and
\* re-enters itself at most once; the load is only reached by the outermost
\* call, and the re-entered call finds the font cached and so returns from
\* the cache-hit branch, whether or not making the sprite succeeds.
C18_AtMostOneReentry ==
  /\ fdepth <= 1
  /\ floads <= 1
  /\ fpc = "load" => (fdepth = 0 /\ floads = 0)
  /\ (fpc = "enter" /\ fdepth = 1) => CacheGet(cached_fonts, fkey)
  /\ fdepth = 1 => floads = 1

\* The call loaded the font, re-entered itself once, failed to make the
\* sprite in the cache-hit branch and returned.
C18_Witness ==
  /\ fpc = "idle"
  /\ ~fhit
  /\ fdepth = 1
  /\ floads = 1
  /\ fresult = "None"

\* The last iteration of spawn delayed: the clock stands past the sample
\* `now` it took.
JustSlept == pc = "loop" /\ clock > now

\* C19: timer.delay returns no sooner than asked and the clock never runs
\* backwards, so after a pacing delay at least `interval` has passed since
\* `before`: the iteration that follows advances the tick, and spawn never
\* delays in two iterations running.  Hence from the top of the loop, while
\* ticks are explored, spawn comes to have pumped and to stand at the render
\* call of a tick; there the render step can always be taken, and it is the
\* only step taken.
C19_SleepThenAdvance ==
  /\ [](JustSlept => clock - before >= interval)
  /\ [][JustSlept => (pc' = "pump" /\ ticks' = ticks + 1)]_vars
  /\ ((pc = "loop" /\ ticks < MaxTicks) ~> (pc = "render" /\ ops = <<"pump">>))
  /\ [](pc = "render" => ENABLED LoopRender)
  /\ [][pc = "render" => (pc' \in {"loop", "done", "panic"} /\ ops' # ops /\ ops'[2] = "render")]_vars

\* A tick that followed a pacing delay has pumped and rendered: it began
\* exactly `interval` after the start, as the first tick of the run.
C19_Witness ==
  /\ pc = "loop"
  /\ ticks = 1
  /\ before = interval
  /\ dt = interval
  /\ ops = <<"pump", "render", "present">>

\* C20: after every ShipView::render call that returns None the ship lies
\* in the movable region of that tick, x in [0, 0.70 * width - SHIP_W] and
\* y in [0, height - SHIP_H], whatever keys were held, however long the
\* ticks took and whatever the window sizes in which the ship fits; a call
\* that comes to move the ship when it does not fit panics, and only such a
\* call does.
C20_ShipStaysInMovableRegion ==
  LET region == MovableRegion(output_size)
      fits == Px(SHIP_W) <= region.w /\ Px(SHIP_H) <= region.h
  IN /\ ship_ret = "None" =>
          /\ fits
          /\ contains(region, player)
          /\ 0 <= player.x /\ player.x <= region.w - Px(SHIP_W)
          /\ 0 <= player.y /\ player.y <= region.h - Px(SHIP_H)
     /\ ship_ret = "panic" => ~fits

\* The parts of C20 that the ship keeps: it is never left of or above the
\* region nor beyond its right side, and a render call panics exactly when
\* it comes to move a ship that does not fit.
ShipKeepsXAndPanics ==
  LET region == MovableRegion(output_size)
      fits == Px(SHIP_W) <= region.w /\ Px(SHIP_H) <= region.h
  IN /\ ship_ret = "None" =>
          /\ fits
          /\ 0 <= player.x /\ player.x <= region.w - Px(SHIP_W)
          /\ 0 <= player.y
     /\ ship_ret = "panic" => ~fits

\* In the window spawn creates (800 x 600) the ship stays in the region.
ShipStaysInDefaultWindow ==
  (ship_ret = "None" /\ output_size = WindowSize) =>
     contains(MovableRegion(output_size), player)

\* C21: whatever keys the render calls of MainMenuView find pressed, up and
\* down together included, 0 <= selected < actions.len(), so indexing
\* `actions` on confirm never panics; Up alone from the first entry selects
\* the last, Down alone from the last selects the first, and Up and Down
\* together leave the selection where it was.
C21_SelectedStaysInRange ==
  /\ [](menu.selected \in 0..(NumActions - 1) /\ menu_ret # "panic")
  /\ [][(menu_calls' = menu_calls + 1 /\ menu_ret' = "None") =>
          LET up == Pressed(menu_ev', "Up")
              down == Pressed(menu_ev', "Down")
          IN /\ (up /\ ~down /\ menu.selected = 0) => menu'.selected = NumActions - 1
             /\ (up /\ ~down /\ menu.selected > 0) => menu'.selected = menu.selected - 1
             /\ (down /\ ~up /\ menu.selected = NumActions - 1) => menu'.selected = 0
             /\ (down /\ ~up /\ menu.selected < NumActions - 1) =>
                  menu'.selected = menu.selected + 1
             /\ (up = down) => menu'.selected = menu.selected]_vars

\* Down moved the selection to the last entry; then Up and Down were found
\* pressed in one call, which left it there.
C21_Witness ==
  /\ menu_calls = 2
  /\ menu_ret = "None"
  /\ Pressed(menu_ev, "Up") /\ Pressed(menu_ev, "Down")
  /\ menu.selected = NumActions - 1

\* C22: when the pump of a tick has left quit raised or Escape just
\* pressed, the render call of that tick, in ShipView as in MainMenuView,
\* returns Quit whatever else was pressed (Return or Space included) and
\* whatever the window size: spawn leaves the loop on that tick, with the
\* pump and the render as its only calls and the view, its selection and
\* the views constructed as they were.
C22_QuitAndEscapeComeFirst ==
  [][(pc = "render" /\ (events.quit \/ Pressed(events, "Escape"))) =>
       /\ act' = ViewAction_Quit
       /\ pc' = "done"
       /\ ops' = <<"pump", "render">>
       /\ current_view' = current_view
       /\ next_id' = next_id
       /\ dropped' = dropped]_vars

\* The pump of a tick of the main menu drained a Return and an Escape going
\* down: the loop was left with the menu still the view and no frame
\* presented.
C22_Witness ==
  /\ pc = "done"
  /\ Pressed(events, "Return") /\ Pressed(events, "Escape")
  /\ current_view = MainMenuView_new(1)
  /\ act = ViewAction_Quit
  /\ ops = <<"pump", "render">>

\* C23: move_inside is idempotent: when r.move_inside(p) returns Some(q),
\* q.move_inside(p) returns Some(q) again.
C23_MoveInsideIsIdempotent ==
  rstep = "again" => (IsSome(rresult2) /\ rresult2 = rresult)

\* A rectangle of positive size that the first call moved, and the second
\* call left where the first had put it.
C23_Witness ==
  /\ rstep = "again"
  /\ rself.w > 0 /\ rself.h > 0
  /\ Unwrap(rresult) # rself
  /\ rresult2 = rresult

====
